---------------------------- MODULE Spec2Model ----------------------------
(***************************************************************************)
(* A model of pipelines/internal/commands/run/run.go: the execution        *)
(* controller (Invoke, runPipeline, cancelOnInterrupt), the script parser   *)
(* (parseFile, parse), the directory merger (mkdir) and the request         *)
(* assembler (buildRequest).                                                *)
(*                                                                         *)
(* Go strings are modelled as sequences of one-character strings, so that   *)
(* prefixes, suffixes, indexes and byte order are computed, not assumed.    *)
(***************************************************************************)
EXTENDS Integers, Sequences, FiniteSets, TLC

(***************************************************************************)
(* Bounds of the model.                                                    *)
(***************************************************************************)
MaxPvmAttempts == 2
MaxAttempts == 2
MaxInterrupts == 2
MaxPathLen == 2
MaxDirs == 3
MaxLines == 2

(***************************************************************************)
(* State of the execution controller.                                      *)
(***************************************************************************)
VARIABLES
    pvmAttempts,   \* flag --pvm-attempts
    attempts,      \* flag --attempts
    wait,          \* flag --wait
    dryRun,        \* flag --dry-run
    pc,            \* position of Invoke/runPipeline: "invoke", "submit", "watch", "done"
    attempt,       \* runPipeline's local attempt counter
    preemptible,   \* req.Pipeline.Resources.VirtualMachine.Preemptible
    printed,       \* the encoded request was written to standard output
    notified,      \* signal.Notify(abort, os.Interrupt) has been called
    runs,          \* the calls of service.Pipelines.Run, in order
    watched,       \* the calls of watch.Invoke, in order, with their outcome
    listeners,     \* attempt -> state of the goroutine cancelOnInterrupt started
    abort,         \* the buffered channel abort (capacity 1)
    interrupts,    \* number of interrupt signals delivered to the process
    cancels,       \* the calls of Operations.Cancel, in order
    result         \* what Invoke returned: "none" (running), "ok", "error"

(***************************************************************************)
(* State of a call of mkdir.                                               *)
(***************************************************************************)
VARIABLES
    mkdirPc,       \* "call" before the call of mkdir, "returned" after it
    mkdirInput,    \* the slice as the caller built it
    directories,   \* the slice handed to mkdir, which sorts it in place
    arguments,     \* mkdir's local arguments
    mkdirAction    \* the action mkdir returns

(***************************************************************************)
(* State of a call of parseFile.                                           *)
(***************************************************************************)
VARIABLES
    filename,      \* the file name: "-" is standard input
    script,        \* the physical lines of the file
    parsePc,       \* "open", "scan" while the scanner loop runs, "returned"
    line,          \* parseFile's line counter
    buffer,        \* parseFile's buffer of joined continuation lines
    actions,       \* parseFile's actions; after the return, the slice returned
    parseErr,      \* the error parseFile returned, <<>> for nil
    parsed         \* the logical lines handed to parse so far, in order

(***************************************************************************)
(* State of a call of buildRequest: the flags it reads and what it returns. *)
(* The file it is given is filename and script above.                       *)
(***************************************************************************)
VARIABLES
    inputs,         \* flag --inputs
    outputs,        \* flag --outputs
    output,         \* flag --output
    outputInterval, \* flag --output-interval, in seconds
    command,        \* flag --command
    fuse,           \* flag --fuse
    ssh,            \* flag --ssh
    zones,          \* flag --zones
    regions,        \* flag --regions
    buildPc,        \* "call" before the call of buildRequest, "returned" after it
    req,            \* the request buildRequest returned
    buildErr,       \* the error buildRequest returned, <<>> for nil
    locals          \* buildRequest's locals when it returned

ctlVars == <<pvmAttempts, attempts, wait, dryRun, pc, attempt, preemptible,
             printed, notified, runs, watched, listeners, abort, interrupts,
             cancels, result>>

parseVars == <<filename, script, parsePc, line, buffer, actions, parseErr,
               parsed>>

mkdirVars == <<mkdirPc, mkdirInput, directories, arguments, mkdirAction>>

buildVars == <<inputs, outputs, output, outputInterval, command, fuse, ssh,
               zones, regions, buildPc, req, buildErr, locals>>

vars == <<ctlVars, mkdirVars, parseVars, buildVars>>

(***************************************************************************)
(* Go strings: sequences of one-character strings, ordered by byte value.  *)
(***************************************************************************)
Ascii ==
    <<" ", "!", "\"", "#", "$", "%", "&", "'", "(", ")", "*", "+", ",", "-",
      ".", "/", "0", "1", "2", "3", "4", "5", "6", "7", "8", "9", ":", ";",
      "<", "=", ">", "?", "@", "A", "B", "C", "D", "E", "F", "G", "H", "I",
      "J", "K", "L", "M", "N", "O", "P", "Q", "R", "S", "T", "U", "V", "W",
      "X", "Y", "Z", "[", "\\", "]", "^", "_", "backquote", "a", "b", "c", "d", "e",
      "f", "g", "h", "i", "j", "k", "l", "m", "n", "o", "p", "q", "r", "s",
      "t", "u", "v", "w", "x", "y", "z", "{", "|", "}", "~">>

\* The byte value of a character (the table starts at the space, 32).
Ord == [c \in {Ascii[i] : i \in 1..Len(Ascii)} |->
           31 + (CHOOSE i \in 1..Len(Ascii) : Ascii[i] = c)]

Range(s) == {s[i] : i \in 1..Len(s)}

Min(a, b) == IF a < b THEN a ELSE b

\* strings.HasPrefix, strings.HasSuffix
HasPrefix(s, prefix) ==
    Len(prefix) <= Len(s) /\ SubSeq(s, 1, Len(prefix)) = prefix
HasSuffix(s, suffix) ==
    Len(suffix) <= Len(s)
    /\ SubSeq(s, Len(s) - Len(suffix) + 1, Len(s)) = suffix

\* Go's < on strings: byte-wise lexicographic order.
Less(a, b) ==
    LET n == Min(Len(a), Len(b))
        diff == {i \in 1..n : a[i] # b[i]}
    IN  IF diff = {}
           THEN Len(a) < Len(b)
           ELSE LET d == CHOOSE i \in diff : \A j \in diff : i <= j
                IN  Ord[a[d]] < Ord[b[d]]

LessEq(a, b) == a = b \/ Less(a, b)

\* sort.Strings: the strings in ascending order.
RECURSIVE SortStrings(_)
Unsorted(list) == list
SortStrings(list) ==
    IF list = <<>>
       THEN <<>>
       ELSE LET rest == SortStrings(Tail(list))
                k == Cardinality({i \in 1..Len(rest) : LessEq(rest[i], Head(list))})
            IN  SubSeq(rest, 1, k) \o <<Head(list)>> \o SubSeq(rest, k + 1, Len(rest))

\* strings.Join
RECURSIVE Join(_, _)
Join(list, sep) ==
    IF list = <<>> THEN <<>>
    ELSE IF Len(list) = 1 THEN list[1]
    ELSE list[1] \o sep \o Join(Tail(list), sep)

\* All non-empty strings over an alphabet up to a length.
StringsUpTo(alphabet, n) == UNION {[1..k -> alphabet] : k \in 1..n}

\* All lists of elements of a set up to a length.
ListsUpTo(set, n) == UNION {[1..k -> set] : k \in 0..n}

(***************************************************************************)
(* More of Go's strings, strconv and time packages, as the parser uses     *)
(* them.                                                                   *)
(***************************************************************************)
\* unicode.IsSpace, for the characters the model draws
IsSpace(c) == c \in {" ", "\t"}

\* strings.Index for a one-character separator: 0-based, -1 when absent.
Index(s, c) ==
    LET hits == {i \in 1..Len(s) : s[i] = c}
    IN  IF hits = {} THEN -1
        ELSE (CHOOSE i \in hits : \A j \in hits : i <= j) - 1

\* strings.TrimSpace
TrimSpace(s) ==
    LET keep == {i \in 1..Len(s) : ~IsSpace(s[i])}
    IN  IF keep = {} THEN <<>>
        ELSE SubSeq(s, CHOOSE i \in keep : \A j \in keep : i <= j,
                       CHOOSE i \in keep : \A j \in keep : i >= j)

\* strings.Fields: the maximal runs of non-space characters.
RECURSIVE FieldsScan(_, _, _)
FieldsScan(s, cur, out) ==
    IF s = <<>>
       THEN IF cur = <<>> THEN out ELSE Append(out, cur)
       ELSE IF IsSpace(Head(s))
               THEN FieldsScan(Tail(s), <<>>,
                               IF cur = <<>> THEN out ELSE Append(out, cur))
               ELSE FieldsScan(Tail(s), Append(cur, Head(s)), out)

Fields(s) == FieldsScan(s, <<>>, <<>>)

\* strings.Split for a one-character separator: empty parts are kept.
RECURSIVE SplitScan(_, _, _, _)
SplitScan(s, c, cur, out) ==
    IF s = <<>>
       THEN Append(out, cur)
       ELSE IF Head(s) = c
               THEN SplitScan(Tail(s), c, <<>>, Append(out, cur))
               ELSE SplitScan(Tail(s), c, Append(cur, Head(s)), out)

Split(s, c) == SplitScan(s, c, <<>>, <<>>)

\* strings.ToUpper on ASCII letters
ToUpper(s) ==
    [i \in 1..Len(s) |->
        IF Ord[s[i]] \in 97..122 THEN Ascii[Ord[s[i]] - 63] ELSE s[i]]

IsDigit(c) == c \in {"0", "1", "2", "3", "4", "5", "6", "7", "8", "9"}

\* The value of a string of decimal digits.
RECURSIVE DigitsValue(_)
DigitsValue(s) ==
    IF s = <<>> THEN 0
    ELSE 10 * DigitsValue(SubSeq(s, 1, Len(s) - 1)) + (Ord[s[Len(s)]] - 48)

\* The decimal digits of a natural number (fmt's %d, %.0f of a whole number).
RECURSIVE Itoa(_)
Itoa(n) ==
    IF n < 10 THEN <<Ascii[n + 17]>>
    ELSE Itoa(n \div 10) \o <<Ascii[(n % 10) + 17]>>

\* strconv.ParseInt(s, 10, 64): an optional sign and at least one digit. The
\* strings the model draws are far from the 64-bit range.
ParseInt(s) ==
    LET signed == Len(s) > 0 /\ s[1] \in {"+", "-"}
        digits == IF signed THEN Tail(s) ELSE s
    IN  IF digits = <<>> \/ \E i \in 1..Len(digits) : ~IsDigit(digits[i])
           THEN [ok |-> FALSE, n |-> 0]
           ELSE [ok |-> TRUE,
                 n |-> IF signed /\ s[1] = "-" THEN 0 - DigitsValue(digits)
                       ELSE DigitsValue(digits)]

\* time.ParseDuration for the forms the model draws: "0", or groups of
\* decimal digits followed by one of the units s, m, h; in seconds. (Go also
\* accepts a sign, fractions and the units ns, us, ms, which no input of the
\* model uses.)
UnitSeconds(u) == IF u = "s" THEN 1 ELSE IF u = "m" THEN 60 ELSE 3600

RECURSIVE DurationGroups(_)
DurationGroups(s) ==
    IF s = <<>> THEN [ok |-> TRUE, seconds |-> 0]
    ELSE LET nondigits == {i \in 1..Len(s) : ~IsDigit(s[i])}
             k == IF nondigits = {} THEN Len(s)
                  ELSE (CHOOSE i \in nondigits : \A j \in nondigits : i <= j) - 1
         IN  IF k = 0 \/ k = Len(s) \/ s[k + 1] \notin {"s", "m", "h"}
                THEN [ok |-> FALSE, seconds |-> 0]
                ELSE LET rest == DurationGroups(SubSeq(s, k + 2, Len(s)))
                     IN  [ok |-> rest.ok,
                          seconds |-> DigitsValue(SubSeq(s, 1, k)) * UnitSeconds(s[k + 1])
                                      + rest.seconds]

ParseDuration(s) ==
    IF s = <<"0">> THEN [ok |-> TRUE, seconds |-> 0]
    ELSE IF s = <<>> THEN [ok |-> FALSE, seconds |-> 0]
    ELSE DurationGroups(s)

\* A Go map as a function; m[k] = v.
EmptyMap == [k \in {} |-> <<>>]
MapPut(m, key, v) ==
    [k \in DOMAIN m \cup {key} |-> IF k = key THEN v ELSE m[k]]

(***************************************************************************)
(* Package-level values and the flags kept at their default.               *)
(***************************************************************************)
\* googleRoot (line 137)
googleRoot == [Disk |-> <<"g", "o", "o", "g", "l", "e">>,
               Path |-> <<"/", "m", "n", "t", "/", "g", "o", "o", "g", "l", "e">>]

\* --cloud-sdk-image and --image at their default values (lines 160, 162)
cloudSDKImage == <<"g", "c", "r", ".", "i", "o", "/", "c", "l", "o", "u", "d", "-", "g", "e", "n", "o", "m", "i", "c", "s", "-", "p", "i", "p", "e", "l", "i", "n", "e", "s", "/", "i", "o">>
defaultImage == <<"b", "a", "s", "h">>

\* The nil *genomics.Action.
NilAction == [Nil |-> TRUE]

\* The zero genomics.Action.
ZeroAction ==
    [ImageUri |-> <<>>, Entrypoint |-> <<>>, Commands |-> <<>>, Flags |-> <<>>,
     Mounts |-> <<>>, PortMappings |-> EmptyMap, Timeout |-> <<>>,
     PidNamespace |-> <<>>]

\* bash (lines 697-704)
bash(commands) ==
    [ZeroAction EXCEPT !.ImageUri = cloudSDKImage,
                       !.Commands = <<<<"-", "c">>, Join(commands, <<" ", "&", "&", " ">>)>>,
                       !.Mounts = <<googleRoot>>,
                       !.Entrypoint = <<"b", "a", "s", "h">>]

(***************************************************************************)
(* The script parser: parse, detectImage, parsePorts, parseFile.           *)
(***************************************************************************)
\* isCloudCommand (lines 584-586)
isCloudCommand(word) ==
    word = <<"g", "s", "u", "t", "i", "l">> \/ word = <<"g", "c", "l", "o", "u", "d">>

\* detectImage (lines 539-547)
detectImage(words, options) ==
    IF <<"i", "m", "a", "g", "e">> \in DOMAIN options THEN options[<<"i", "m", "a", "g", "e">>]
    ELSE IF Len(words) > 0 /\ isCloudCommand(words[1]) THEN cloudSDKImage
    ELSE defaultImage

\* parsePorts (lines 665-679): the loop over the pairs.
RECURSIVE PortsScan(_, _)
PortsScan(pairs, ports) ==
    IF pairs = <<>> THEN [err |-> <<>>, ports |-> ports]
    ELSE LET pair == Head(pairs)
             i == Index(pair, ":")
             n == ParseInt(SubSeq(pair, i + 2, Len(pair)))
         IN  IF i < 1
                THEN [err |-> <<"invalid port mapping", pair>>, ports |-> EmptyMap]
                ELSE IF ~n.ok
                        THEN [err |-> <<"parsing host port", pair>>, ports |-> EmptyMap]
                        ELSE PortsScan(Tail(pairs), MapPut(ports, SubSeq(pair, 1, i), n.n))

parsePorts(input) == PortsScan(Split(input, ";"), EmptyMap)

\* parse, lines 497-506: the options and flags after the first '#'.
RECURSIVE OptionsScan(_, _, _)
OptionsScan(fields, options, flags) ==
    IF fields = <<>> THEN [options |-> options, flags |-> flags]
    ELSE LET option == Head(fields)
             n == Index(option, "=")
         IN  IF n >= 0
                THEN OptionsScan(Tail(fields),
                                 MapPut(options, SubSeq(option, 1, n),
                                        SubSeq(option, n + 2, Len(option))),
                                 flags)
                ELSE OptionsScan(Tail(fields), options,
                                 Append(flags, ToUpper(option)))

\* parse (lines 493-537): the action and the error it returns.
parse(text) ==
    LET n == Index(text, "#")
        opts == IF n >= 0
                   THEN OptionsScan(Fields(TrimSpace(SubSeq(text, n + 2, Len(text)))),
                                    EmptyMap, <<>>)
                   ELSE [options |-> EmptyMap, flags |-> <<>>]
        options == opts.options
        rest == IF n >= 0 THEN SubSeq(text, 1, n) ELSE text
        fields == Fields(TrimSpace(rest))
        background == Len(fields) > 0 /\ fields[Len(fields)] = <<"&">>
        commands == IF background THEN SubSeq(fields, 1, Len(fields) - 1)
                    ELSE fields
        flags == IF background THEN Append(opts.flags, <<"R", "U", "N", "_", "I", "N", "_", "B", "A", "C", "K", "G", "R", "O", "U", "N", "D">>)
                 ELSE opts.flags
        hasTimeout == <<"t", "i", "m", "e", "o", "u", "t">> \in DOMAIN options
        duration == IF hasTimeout THEN ParseDuration(options[<<"t", "i", "m", "e", "o", "u", "t">>])
                    ELSE [ok |-> TRUE, seconds |-> 0]
        hasPorts == <<"p", "o", "r", "t", "s">> \in DOMAIN options
        ports == IF hasPorts THEN parsePorts(options[<<"p", "o", "r", "t", "s">>])
                 ELSE [err |-> <<>>, ports |-> EmptyMap]
        action ==
            [ZeroAction EXCEPT
                !.Flags = flags,
                !.Commands = IF Len(fields) > 0
                                THEN <<<<"-", "c">>, Join(commands, <<" ">>)>>
                                ELSE <<>>,
                !.Entrypoint = IF Len(fields) > 0 THEN <<"b", "a", "s", "h">> ELSE <<>>,
                !.Timeout = IF hasTimeout THEN Itoa(duration.seconds) \o <<"s">>
                            ELSE <<>>,
                !.ImageUri = detectImage(commands, options),
                !.Mounts = <<googleRoot>>,
                !.PortMappings = ports.ports]
    IN  IF ~duration.ok
           THEN [action |-> NilAction,
                 err |-> <<"parsing action timeout", options[<<"t", "i", "m", "e", "o", "u", "t">>]>>]
           ELSE IF ports.err # <<>>
                   THEN [action |-> NilAction, err |-> <<"parsing ports">> \o ports.err]
                   ELSE [action |-> action, err |-> <<>>]

\* The script lines the model draws.
ScriptLines ==
    {<<>>,
     <<" ">>,
     <<"a">>,
     <<"a", " ", "&">>,
     <<"a", "\\">>,
     <<"\\">>,
     <<"#", " ", "b">>,
     <<"a", " ", "#", " ", "i", "m", "a", "g", "e", "=", "b">>,
     <<"g", "s", "u", "t", "i", "l", " ", "a">>,
     <<"a", " ", "#", " ", "t", "i", "m", "e", "o", "u", "t", "=", "1", "m">>,
     <<"a", " ", "#", " ", "t", "i", "m", "e", "o", "u", "t", "=", "x">>,
     <<"a", " ", "#", " ", "p", "o", "r", "t", "s", "=", "a", ":", "1", ";", "b", ":", "2">>,
     <<"a", " ", "#", " ", "p", "o", "r", "t", "s", "=", "a", ":", "-", "1">>,
     <<"a", " ", "#", " ", "p", "o", "r", "t", "s", "=", ":", "1">>,
     <<"a", " ", "#", " ", "p", "o", "r", "t", "s", "=", "a", ":", "x">>,
     <<"e", "c", "h", "o", " ", "h", "i", " ", "&", " ", " ", "#", " ", "p", "o", "r", "t", "s", "=", "a", ":", "1", ";", "b", ":", "2", " ", "i", "m", "a", "g", "e", "=", "f", "o", "o">>}

\* parseJSON(filename, &actions) (lines 254-262, 450): the files of the model
\* that decode as a JSON array of actions, with the actions they decode to.
JSONActionFiles == {<<<<"[", "]">>>>}
DecodeActions(lines) == <<>>

ParseInit ==
    /\ filename \in {"-", "file"}
    /\ script \in ListsUpTo(ScriptLines, MaxLines) \cup JSONActionFiles
    /\ parsePc = "open"
    /\ line = 0
    /\ buffer = <<>>
    /\ actions = <<>>
    /\ parseErr = <<>>
    /\ parsed = <<>>

ParseIdle ==
    /\ filename = ""
    /\ script = <<>>
    /\ parsePc = "idle"
    /\ line = 0
    /\ buffer = <<>>
    /\ actions = <<>>
    /\ parseErr = <<>>
    /\ parsed = <<>>

\* Lines 445-461: a named file that decodes as a JSON array of actions is
\* returned as decoded.
ParseFileJSON ==
    /\ parsePc = "open"
    /\ filename # "-"
    /\ script \in JSONActionFiles
    /\ actions' = DecodeActions(script)
    /\ parsePc' = "returned"
    /\ UNCHANGED <<filename, script, line, buffer, parseErr, parsed>>

\* Lines 445-465: standard input, or a file that is no JSON array, is
\* scanned line by line.
ParseFileOpen ==
    /\ parsePc = "open"
    /\ filename = "-" \/ script \notin JSONActionFiles
    /\ parsePc' = "scan"
    /\ UNCHANGED <<filename, script, line, buffer, actions, parseErr, parsed>>

\* Lines 466-473: a physical line that ends in the continuation marker is
\* buffered without the marker.
ScanContinuation ==
    /\ parsePc = "scan"
    /\ line < Len(script)
    /\ LET text == script[line + 1]
       IN  /\ HasSuffix(text, <<"\\">>)
           /\ buffer' = buffer \o SubSeq(text, 1, Len(text) - 1)
    /\ line' = line + 1
    /\ UNCHANGED <<filename, script, parsePc, actions, parseErr, parsed>>

\* Lines 466-485: any other physical line completes the logical line, which
\* is parsed: an error ends parseFile, an action that is not nil is appended.
ScanParse ==
    /\ parsePc = "scan"
    /\ line < Len(script)
    /\ LET text == script[line + 1]
           r == parse(buffer \o text)
       IN  /\ ~HasSuffix(text, <<"\\">>)
           /\ parsed' = Append(parsed, buffer \o text)
           /\ IF r.err # <<>>
                 THEN /\ parseErr' = <<"line", line + 1>> \o r.err
                      /\ actions' = <<>>
                      /\ parsePc' = "returned"
                      /\ buffer' = buffer \o text
                 ELSE /\ parseErr' = parseErr
                      /\ actions' = IF r.action # NilAction
                                       THEN Append(actions, r.action)
                                       ELSE actions
                      /\ parsePc' = parsePc
                      /\ buffer' = <<>>
    /\ line' = line + 1
    /\ UNCHANGED <<filename, script>>

\* Lines 466, 487-490: the scanner is at the end of the file.
ScanEnd ==
    /\ parsePc = "scan"
    /\ line = Len(script)
    /\ parsePc' = "returned"
    /\ UNCHANGED <<filename, script, line, buffer, actions, parseErr, parsed>>

\* Lines 466, 487-489: the scanner stops on a read error.
ScanFails ==
    /\ parsePc = "scan"
    /\ parseErr' = <<"reading script">>
    /\ actions' = <<>>
    /\ parsePc' = "returned"
    /\ UNCHANGED <<filename, script, line, buffer, parsed>>

(***************************************************************************)
(* The directory merger: mkdir (lines 706-722).                            *)
(***************************************************************************)
\* Lines 713-719: the scan over the sorted slice.
RECURSIVE MergeLoop(_, _)
MergeLoop(args, rest) ==
    IF rest = <<>>
       THEN args
       ELSE IF HasPrefix(Head(rest), args[Len(args)])
               THEN MergeLoop([args EXCEPT ![Len(args)] = Head(rest)], Tail(rest))
               ELSE MergeLoop(Append(args, Head(rest)), Tail(rest))

\* Lines 711-719: the local arguments of mkdir, for a non-empty slice.
MkdirArguments(dirs) ==
    LET sorted == SortStrings(dirs)
    IN  MergeLoop(<<sorted[1]>>, Tail(sorted))

\* Lines 706-722.
mkdir(dirs) ==
    IF Len(dirs) = 0
       THEN NilAction
       ELSE bash(<<<<"m", "k", "d", "i", "r", " ", "-", "p", " ">> \o Join(MkdirArguments(dirs), <<" ">>)>>)

\* The paths handed to mkdir are absolute (lines 272-279, 286, 291, 308, 315):
\* a slash followed by up to MaxPathLen characters.
PathAlphabet == {"/", "a"}
Paths == {<<"/">> \o s : s \in StringsUpTo(PathAlphabet, MaxPathLen)}

MkdirInit ==
    /\ mkdirPc = "call"
    /\ mkdirInput \in ListsUpTo(Paths, MaxDirs)
    /\ directories = mkdirInput
    /\ arguments = <<>>
    /\ mkdirAction = NilAction

MkdirIdle ==
    /\ mkdirPc = "idle"
    /\ mkdirInput = <<>>
    /\ directories = <<>>
    /\ arguments = <<>>
    /\ mkdirAction = NilAction

\* One call of mkdir: the slice is sorted in place, the action is returned.
MkdirCall ==
    /\ mkdirPc = "call"
    /\ mkdirPc' = "returned"
    /\ directories' = IF Len(directories) = 0 THEN directories
                      ELSE SortStrings(directories)
    /\ arguments' = IF Len(directories) = 0 THEN <<>>
                    ELSE MkdirArguments(directories)
    /\ mkdirAction' = mkdir(directories)
    /\ UNCHANGED mkdirInput

(***************************************************************************)
(* Paths and storage URLs: path.Join, path.Dir, strings.TrimRight,         *)
(* url.Parse, gcsJoin, gcsTransfer, gsutil, upload, gcsFuse, sshDebug.     *)
(***************************************************************************)
\* strings.TrimRight(s, "*"): every trailing '*' is removed.
RECURSIVE TrimRightStars(_)
TrimRightStars(s) ==
    IF s # <<>> /\ s[Len(s)] = "*" THEN TrimRightStars(SubSeq(s, 1, Len(s) - 1))
    ELSE s

\* strings.TrimPrefix
TrimPrefix(s, prefix) ==
    IF HasPrefix(s, prefix) THEN SubSeq(s, Len(prefix) + 1, Len(s)) ELSE s

\* The elements of a list that are not empty.
RECURSIVE NonEmpty(_)
NonEmpty(list) ==
    IF list = <<>> THEN <<>>
    ELSE IF Head(list) = <<>> THEN NonEmpty(Tail(list))
    ELSE <<Head(list)>> \o NonEmpty(Tail(list))

\* path.Clean for paths without "." and ".." elements, which no path of the
\* model has: repeated and trailing slashes are removed, the empty path is ".".
Clean(p) ==
    LET elements == NonEmpty(Split(p, "/"))
        rooted == p # <<>> /\ p[1] = "/"
        joined == Join(elements, <<"/">>)
    IN  IF rooted THEN <<"/">> \o joined
        ELSE IF joined = <<>> THEN <<".">>
        ELSE joined

\* path.Join and filepath.Join (on a Unix path): the non-empty elements joined by
\* slashes and cleaned; "" when every element is empty.
PathJoin(elements) ==
    IF NonEmpty(elements) = <<>> THEN <<>>
    ELSE Clean(Join(NonEmpty(elements), <<"/">>))

\* path.Dir: all but the last element of the path, cleaned.
PathDir(p) ==
    LET slashes == {i \in 1..Len(p) : p[i] = "/"}
        last == IF slashes = {} THEN 0
                ELSE CHOOSE i \in slashes : \A j \in slashes : i >= j
    IN  Clean(SubSeq(p, 1, last))

\* gcsPrefix (line 735)
gcsPrefix == <<"g", "s", ":", "/", "/">>

\* gcsJoin (lines 745-754)
gcsJoin(input) ==
    LET parts == [i \in 1..Len(input) |-> TrimPrefix(input[i], gcsPrefix)]
    IN  IF Len(input) > 0 /\ HasPrefix(input[1], gcsPrefix)
           THEN gcsPrefix \o PathJoin(parts)
           ELSE PathJoin(parts)

\* url.Parse, as far as parseGCSPath (lines 737-743) uses it: whether the
\* input parses, and the host of the URL. Of the inputs of the model, the one
\* that starts with ':' does not parse (missing protocol scheme); a path
\* without "//" after a scheme has an empty host.
URLParses(input) == ~HasPrefix(input, <<":">>)

URLHost(input) ==
    LET colon == Index(input, ":")
        rest == SubSeq(input, colon + 2, Len(input))
        authority == SubSeq(rest, 3, Len(rest))
        slash == Index(authority, "/")
    IN  IF colon > 0 /\ HasPrefix(rest, <<"/", "/">>)
           THEN IF slash >= 0 THEN SubSeq(authority, 1, slash) ELSE authority
           ELSE <<>>

parseGCSPath(input) ==
    IF URLParses(input) THEN [bucket |-> URLHost(input), ok |-> TRUE]
    ELSE [bucket |-> <<>>, ok |-> FALSE]

\* gsutil (lines 681-683)
gsutil(args) == bash(<<<<"g", "s", "u", "t", "i", "l", " ", "-", "q", " ">> \o Join(args, <<" ">>)>>)

\* gcsTransfer (lines 756-768): the copy action for a remote specifier.
gcsTransfer(remote, from, to) ==
    LET f == TrimRightStars(from)
        t == TrimRightStars(to)
    IN  IF HasSuffix(remote, <<"/", "*", "*">>)
           THEN gsutil(<<<<"-", "m">>, <<"c", "p">>, <<"-", "r">>, gcsJoin(<<f, <<"*">>>>), t>>)
           ELSE IF HasSuffix(remote, <<"/", "*">>)
                   THEN gsutil(<<<<"-", "m">>, <<"c", "p">>, gcsJoin(<<f, <<"*">>>>), t>>)
                   ELSE gsutil(<<<<"c", "p">>, f, t>>)

\* fmt's %q of a string without characters to escape.
Quoted(s) == <<"\"">> \o s \o <<"\"">>

\* The base64 encoding of a local file's content: the content is not
\* modelled.
EncodedContent == <<"Y", "2", "9", "u", "d", "G", "V", "u", "d", "A", "=", "=">>

\* upload (lines 685-695), when the file can be read.
upload(input, out) ==
    bash(<<<<"m", "k", "d", "i", "r", " ", "-", "p", " ">> \o Quoted(PathDir(out)),
           <<"e", "c", "h", "o", " ">> \o Quoted(EncodedContent) \o <<" ", "|", " ", "b", "a", "s", "e", "6", "4", " ", "-", "d", " ", ">", " ">> \o Quoted(out)>>)

fuseImage == <<"g", "c", "r", ".", "i", "o", "/", "c", "l", "o", "u", "d", "-", "g", "e", "n", "o", "m", "i", "c", "s", "-", "p", "i", "p", "e", "l", "i", "n", "e", "s", "/", "g", "c", "s", "f", "u", "s", "e">>

\* gcsFuse (lines 770-786) for the buckets in the order the map yields them.
RECURSIVE gcsFuse(_, _)
gcsFuse(order, buckets) ==
    IF order = <<>> THEN <<>>
    ELSE <<[ZeroAction EXCEPT
               !.ImageUri = fuseImage,
               !.Commands = <<<<"-", "-", "i", "m", "p", "l", "i", "c", "i", "t", "-", "d", "i", "r", "s">>, <<"-", "-", "f", "o", "r", "e", "g", "r", "o", "u", "n", "d">>, Head(order), buckets[Head(order)]>>,
               !.Flags = <<<<"E", "N", "A", "B", "L", "E", "_", "F", "U", "S", "E">>, <<"R", "U", "N", "_", "I", "N", "_", "B", "A", "C", "K", "G", "R", "O", "U", "N", "D">>>>,
               !.Mounts = <<googleRoot>>],
           [ZeroAction EXCEPT
               !.ImageUri = fuseImage,
               !.Commands = <<<<"w", "a", "i", "t">>, buckets[Head(order)]>>,
               !.Mounts = <<googleRoot>>]>>
         \o gcsFuse(Tail(order), buckets)

\* sshDebug (lines 788-794)
sshDebug ==
    [ZeroAction EXCEPT
        !.ImageUri = <<"g", "c", "r", ".", "i", "o", "/", "c", "l", "o", "u", "d", "-", "g", "e", "n", "o", "m", "i", "c", "s", "-", "p", "i", "p", "e", "l", "i", "n", "e", "s", "/", "t", "o", "o", "l", "s">>,
        !.Entrypoint = <<"s", "s", "h", "-", "s", "e", "r", "v", "e", "r">>,
        !.PortMappings = MapPut(EmptyMap, <<"2", "2">>, 22),
        !.Flags = <<<<"R", "U", "N", "_", "I", "N", "_", "B", "A", "C", "K", "G", "R", "O", "U", "N", "D">>>>]

\* googlePath (lines 272-274)
googlePath(directory) == PathJoin(<<googleRoot.Path, <<".", "g", "o", "o", "g", "l", "e">>, directory>>)

(***************************************************************************)
(* The request assembler: buildRequest and its helpers.                    *)
(***************************************************************************)
\* parseFile (lines 444-491) as one call: the scanner loop.
RECURSIVE ScanLoop(_, _, _, _)
ScanLoop(lines, n, buf, acts) ==
    IF lines = <<>> THEN [actions |-> acts, err |-> <<>>]
    ELSE LET text == Head(lines)
             r == parse(buf \o text)
         IN  IF HasSuffix(text, <<"\\">>)
                THEN ScanLoop(Tail(lines), n + 1,
                              buf \o SubSeq(text, 1, Len(text) - 1), acts)
                ELSE IF r.err # <<>>
                        THEN [actions |-> <<>>, err |-> <<"line", n + 1>> \o r.err]
                        ELSE ScanLoop(Tail(lines), n + 1, <<>>,
                                      IF r.action # NilAction
                                         THEN Append(acts, r.action) ELSE acts)

parseFile(name, lines) ==
    IF name # "-" /\ lines \in JSONActionFiles
       THEN [actions |-> DecodeActions(lines), err |-> <<>>]
       ELSE ScanLoop(lines, 0, <<>>, <<>>)

\* parseJSON(filename, &req) (lines 254-270): the files of the model that
\* decode as a raw request, and the request they decode to. Standard input
\* ("-") is not opened by parseJSON.
RawRequestFiles == {<<<<"{", "\"", "p", "i", "p", "e", "l", "i", "n", "e", "\"", ":", " ", "{", "}", "}">>>>}

DecodeRequest(lines) ==
    [Pipeline |-> [Actions |-> <<>>,
                   Environment |-> EmptyMap,
                   Resources |-> [Zones |-> <<>>, Regions |-> <<>>,
                                  VirtualMachine |-> [Disks |-> <<>>,
                                                      Scopes |-> <<>>]]],
     Labels |-> EmptyMap]

IsRawRequest == filename \notin {"", "-"} /\ script \in RawRequestFiles

\* The nil *genomics.RunPipelineRequest.
NilRequest == [Nil |-> TRUE]

\* listOf (lines 588-593)
listOf(input) == IF input = <<>> THEN <<>> ELSE Split(input, ",")

\* namedListOf (lines 595-605): a map from specifier to variable name.
RECURSIVE NamedScan(_, _, _, _)
NamedScan(items, n, defaultPrefix, out) ==
    IF items = <<>> THEN out
    ELSE LET item == Head(items)
             i == Index(item, "=")
         IN  NamedScan(Tail(items), n + 1, defaultPrefix,
                       IF i > 0
                          THEN MapPut(out, SubSeq(item, i + 2, Len(item)),
                                      SubSeq(item, 1, i))
                          ELSE IF item # <<>>
                                  THEN MapPut(out, item, defaultPrefix \o Itoa(n))
                                  ELSE out)

namedListOf(input, defaultPrefix) ==
    NamedScan(Split(input, ","), 0, defaultPrefix, EmptyMap)

\* The orders in which a range over a Go map may yield its keys.
Orders(keys) ==
    {order \in [1..Cardinality(keys) -> keys] :
        \A i, j \in 1..Cardinality(keys) : i # j => order[i] # order[j]}

\* The names the remote listing returns (listZones, listRegions,
\* lines 641-663).
ZoneNames == <<<<"u", "s", "-", "e", "a", "s", "t", "1", "-", "b">>, <<"u", "s", "-", "e", "a", "s", "t", "1", "-", "d">>, <<"e", "u", "r", "o", "p", "e", "-", "w", "e", "s", "t", "1", "-", "b">>>>
RegionNames == <<<<"u", "s", "-", "e", "a", "s", "t", "1">>, <<"e", "u", "r", "o", "p", "e", "-", "w", "e", "s", "t", "1">>>>

\* The hard-coded default zone (line 406)
DefaultZone == <<"u", "s", "-", "e", "a", "s", "t", "1", "-", "d">>

\* expandPrefixes (lines 607-639); listOK: the listing call succeeds.
RECURSIVE SelectSeq2(_, _)
SelectSeq2(list, prefixes) ==
    IF list = <<>> THEN <<>>
    ELSE (IF \E i \in 1..Len(prefixes) : HasPrefix(Head(list), prefixes[i])
             THEN <<Head(list)>> ELSE <<>>)
         \o SelectSeq2(Tail(list), prefixes)

RECURSIVE Literals(_)
Literals(items) ==
    IF items = <<>> THEN <<>>
    ELSE (IF HasSuffix(Head(items), <<"*">>) THEN <<>> ELSE <<Head(items)>>)
         \o Literals(Tail(items))

RECURSIVE Prefixes(_)
Prefixes(items) ==
    IF items = <<>> THEN <<>>
    ELSE (IF HasSuffix(Head(items), <<"*">>)
             THEN <<SubSeq(Head(items), 1, Len(Head(items)) - 1)>> ELSE <<>>)
         \o Prefixes(Tail(items))

expandPrefixes(items, allValues, listOK) ==
    IF Len(Prefixes(items)) > 0
       THEN IF listOK
               THEN [results |-> Literals(items) \o SelectSeq2(allValues, Prefixes(items)),
                     err |-> <<>>]
               ELSE [results |-> <<>>, err |-> <<"listing">>]
       ELSE [results |-> Literals(items), err |-> <<>>]

inputRoot == googlePath(<<"i", "n", "p", "u", "t">>)
outputRoot == googlePath(<<"o", "u", "t", "p", "u", "t">>)

\* Lines 285-304: the loop over the inputs, in the order the map yields them.
\* st holds the locals localizers, directories, environment, buckets and the
\* error of a failed upload; readOK: the local file can be read.
RECURSIVE InputsLoop(_, _, _, _)
InputsLoop(order, names, st, readOK) ==
    IF order = <<>> \/ st.err # <<>> THEN st
    ELSE LET input == Head(order)
             target == gcsJoin(<<inputRoot, TrimRightStars(input)>>)
             gcs == parseGCSPath(input)
             bound == [st EXCEPT !.environment = MapPut(@, names[input], target)]
             dirs == IF HasSuffix(input, <<"*">>)
                        THEN Append(st.directories, target)
                        ELSE st.directories
         IN  IF gcs.ok /\ fuse
                THEN InputsLoop(Tail(order), names,
                                [bound EXCEPT !.buckets =
                                     MapPut(@, gcs.bucket, PathJoin(<<inputRoot, gcs.bucket>>))],
                                readOK)
                ELSE IF gcs.ok
                        THEN InputsLoop(Tail(order), names,
                                        [bound EXCEPT
                                            !.localizers = Append(@, gcsTransfer(input, input, target)),
                                            !.directories = dirs],
                                        readOK)
                        ELSE IF ~readOK
                                THEN [bound EXCEPT !.err = <<"processing", input>>]
                                ELSE InputsLoop(Tail(order), names,
                                                [bound EXCEPT
                                                    !.localizers = Append(@, upload(input, target)),
                                                    !.directories = dirs],
                                                readOK)

\* Lines 306-311: the directories of the mounted buckets.
BucketPaths(order, buckets) == [i \in 1..Len(order) |-> buckets[order[i]]]

\* Lines 318-322: the directory an output needs: its target for a glob, the
\* parent of its target otherwise.
OutputDirectoryTargetOnly(out, target) == target
OutputDirectory(out, target) ==
    IF HasSuffix(out, <<"*">>) THEN target ELSE PathDir(target)

\* Lines 314-323: the loop over the outputs.
RECURSIVE OutputsLoop(_, _, _)
OutputsLoop(order, names, st) ==
    IF order = <<>> THEN st
    ELSE LET out == Head(order)
             target == gcsJoin(<<outputRoot, TrimRightStars(out)>>)
         IN  OutputsLoop(Tail(order), names,
                 [st EXCEPT
                     !.delocalizers = Append(@, gcsTransfer(out, target, out)),
                     !.environment = MapPut(@, names[out], target),
                     !.directories = Append(@, OutputDirectory(out, target))])

\* Lines 325-329: the upload of the consolidated log.
LogUpload ==
    [gsutil(<<<<"c", "p">>, <<"/", "g", "o", "o", "g", "l", "e", "/", "l", "o", "g", "s", "/", "o", "u", "t", "p", "u", "t">>, output>>) EXCEPT !.Flags = <<<<"A", "L", "W", "A", "Y", "S", "_", "R", "U", "N">>>>]

\* Lines 332-336: the periodic upload of the log while the pipeline runs.
PeriodicLogUpload ==
    [bash(<<<<"w", "h", "i", "l", "e", " ", "t", "r", "u", "e", ";", " ", "d", "o", " ", "s", "l", "e", "e", "p", " ">> \o Itoa(outputInterval) \o <<";", " ", "g", "s", "u", "t", "i", "l", " ", "-", "q", " ", "c", "p", " ", "/", "g", "o", "o", "g", "l", "e", "/", "l", "o", "g", "s", "/", "o", "u", "t", "p", "u", "t", " ">> \o output \o <<";", " ", "d", "o", "n", "e">>>>)
        EXCEPT !.Flags = <<<<"R", "U", "N", "_", "I", "N", "_", "B", "A", "C", "K", "G", "R", "O", "U", "N", "D">>>>]

\* Lines 338-352: the actions of the file or of the command.
UserActions ==
    IF filename # ""
       THEN parseFile(filename, script)
       ELSE IF command # <<>>
               THEN LET r == parse(command)
                    IN  IF r.err # <<>> THEN [actions |-> <<>>, err |-> r.err]
                        ELSE [actions |-> <<r.action>>, err |-> <<>>]
               ELSE [actions |-> <<>>, err |-> <<"no command or input file was specified">>]

\* Line 388: both lists are given.
BothSuppliedNever == FALSE
BothSupplied == regions # <<>> /\ zones # <<>>

\* Lines 388-407: the zones and regions of the resources.
ResourcesOf(listOK) ==
    LET rs == IF regions # <<>> THEN expandPrefixes(listOf(regions), RegionNames, listOK)
              ELSE [results |-> <<>>, err |-> <<>>]
        zs == IF zones # <<>> THEN expandPrefixes(listOf(zones), ZoneNames, listOK)
              ELSE [results |-> <<>>, err |-> <<>>]
    IN  IF BothSupplied
           THEN [err |-> <<"both zones and regions have been supplied">>,
                 Zones |-> <<>>, Regions |-> <<>>]
        ELSE IF rs.err # <<>>
           THEN [err |-> <<"expanding regions">>, Zones |-> <<>>, Regions |-> <<>>]
        ELSE IF zs.err # <<>>
           THEN [err |-> <<"expanding zones">>, Zones |-> <<>>, Regions |-> <<>>]
        ELSE [err |-> <<>>,
              Zones |-> IF Len(zs.results) + Len(rs.results) = 0
                           THEN <<DefaultZone>> ELSE zs.results,
              Regions |-> rs.results]

\* Lines 414-422: the action sequence of the pipeline.
AssembleActionsUserLast(first, debug, localizers, acts, delocalizers) ==
    <<first>> \o debug \o localizers \o delocalizers \o acts
AssembleActions(first, debug, localizers, acts, delocalizers) ==
    <<first>> \o debug \o localizers \o acts \o delocalizers

\* addRequiredDisks (lines 549-572): one disk per disk name mounted, in the
\* order the map yields the names.
MountedDisks(acts) ==
    UNION {{acts[i].Mounts[j].Disk : j \in 1..Len(acts[i].Mounts)} :
              i \in 1..Len(acts)}

\* addRequiredScopes (lines 574-582): the scope is appended once if some
\* action uses the cloud SDK image or starts with a cloud command.
StorageScope == <<"h", "t", "t", "p", "s", ":", "/", "/", "w", "w", "w", ".", "g", "o", "o", "g", "l", "e", "a", "p", "i", "s", ".", "c", "o", "m", "/", "a", "u", "t", "h", "/", "d", "e", "v", "s", "t", "o", "r", "a", "g", "e", ".", "r", "e", "a", "d", "_", "w", "r", "i", "t", "e">>

addRequiredScopes(acts, scopes) ==
    IF \E i \in 1..Len(acts) :
          \/ acts[i].ImageUri = cloudSDKImage
          \/ (Len(acts[i].Commands) > 0 /\ isCloudCommand(acts[i].Commands[1]))
       THEN Append(scopes, StorageScope)
       ELSE scopes

\* buildRequest's locals when it returns before assembling a pipeline.
NoLocals ==
    [directories |-> <<>>, localizers |-> <<>>, actions |-> <<>>,
     delocalizers |-> <<>>, parsed |-> <<>>]

\* Lines 279-283: the locals before the loop over the inputs.
InputsStart ==
    [localizers |-> <<>>,
     directories |-> <<googlePath(<<"t", "m", "p">>)>>,
     environment |-> MapPut(EmptyMap, <<"T", "M", "P", "D", "I", "R">>, googlePath(<<"t", "m", "p">>)),
     buckets |-> EmptyMap,
     err |-> <<>>]

\* The buckets to mount after the loop over the inputs (line 282).
BucketsFor(inputOrder, readOK) ==
    InputsLoop(inputOrder, namedListOf(inputs, <<"I", "N", "P", "U", "T">>), InputsStart, readOK).buckets

\* buildRequest (lines 264-442), in the stages of its body. ch holds what the
\* environment decides: the orders in which the ranges over the maps yield
\* their keys, whether local files can be read and whether the remote listing
\* succeeds. The disks of the virtual machine, appended in map order, are
\* kept as a set.
buildFails(e) == [req |-> NilRequest, err |-> e, locals |-> NoLocals]

\* Lines 409-441: the pipeline and the request.
buildReturn(all, environment, resources, kept) ==
    [req |->
        [Pipeline |->
            [Actions |-> all,
             Environment |-> environment,
             Resources |->
                 [Zones |-> resources.Zones,
                  Regions |-> resources.Regions,
                  VirtualMachine |->
                      [Disks |-> MountedDisks(all),
                       Scopes |-> addRequiredScopes(all, <<>>)]]],
         Labels |-> EmptyMap],
     err |-> <<>>,
     locals |-> kept]

\* Lines 384-422: the resources, then the action sequence.
buildResources(resources, afterOutputs, localizers, acts, user, delocalizers) ==
    IF resources.err # <<>> THEN buildFails(resources.err)
    ELSE buildReturn(AssembleActions(mkdir(afterOutputs.directories),
                                     IF ssh THEN <<sshDebug>> ELSE <<>>,
                                     localizers, acts, delocalizers),
                     afterOutputs.environment,
                     resources,
                     [directories |-> afterOutputs.directories,
                      localizers |-> localizers,
                      actions |-> acts,
                      delocalizers |-> delocalizers,
                      parsed |-> user])

\* Lines 331-352: the periodic log upload, then the actions of the file or of
\* the command.
buildActions(ch, user, afterOutputs, localizers, delocalizers) ==
    IF user.err # <<>> THEN buildFails(<<"creating pipeline">> \o user.err)
    ELSE buildResources(ResourcesOf(ch.listOK), afterOutputs, localizers,
                        (IF outputInterval # 0 /\ output # <<>>
                            THEN <<PeriodicLogUpload>> ELSE <<>>) \o user.actions,
                        user.actions, delocalizers)

\* Lines 313-329: the loop over the outputs and the upload of the log.
buildOutputs(ch, afterOutputs, localizers) ==
    buildActions(ch, UserActions, afterOutputs, localizers,
                 afterOutputs.delocalizers
                 \o (IF output # <<>> THEN <<LogUpload>> ELSE <<>>))

\* Lines 296-311: a failed upload ends the build; otherwise the buckets are
\* mounted and their directories added.
buildInputs(ch, afterInputs) ==
    IF afterInputs.err # <<>> THEN buildFails(afterInputs.err)
    ELSE buildOutputs(ch,
             OutputsLoop(ch.outputOrder,
                         namedListOf(outputs, <<"O", "U", "T", "P", "U", "T">>),
                         [delocalizers |-> <<>>,
                          environment |-> afterInputs.environment,
                          directories |-> afterInputs.directories
                                          \o BucketPaths(ch.bucketOrder, afterInputs.buckets)]),
             afterInputs.localizers \o gcsFuse(ch.fuseOrder, afterInputs.buckets))

buildRequest(ch) ==
    IF IsRawRequest
       THEN [req |-> DecodeRequest(script), err |-> <<>>, locals |-> NoLocals]
       ELSE buildInputs(ch, InputsLoop(ch.inputOrder,
                                       namedListOf(inputs, <<"I", "N", "P", "U", "T">>),
                                       InputsStart, ch.readOK))

\* The flags and files the model draws. The zones and regions only feed lines
\* 388-407, which read none of the flags of the actions, so the model varies
\* the two groups of flags one at a time.
InputsFlags ==
    {<<>>, <<"g", "s", ":", "/", "/", "b", "/", "o">>, <<"/", "l", "/", "f">>,
     <<"g", "s", ":", "/", "/", "b", "/", "d", "/", "*", ",", "g", "s", ":", "/", "/", "c", "/", "e", "/", "*", "*">>,
     <<"N", "=", "g", "s", ":", "/", "/", "b", "/", "o", ",", ":", "x">>}
OutputsFlags ==
    {<<>>, <<"g", "s", ":", "/", "/", "b", "/", "r">>,
     <<"g", "s", ":", "/", "/", "b", "/", "r", ",", "M", "=", "g", "s", ":", "/", "/", "b", "/", "s", "/", "*">>}
OutputFlags == {<<>>, <<"g", "s", ":", "/", "/", "b", "/", "l", "o", "g">>}
ZonesFlags == {<<>>, <<"u", "s", "-", "e", "a", "s", "t", "1", "-", "b">>, <<"a", "s", "i", "a", "-", "*">>}
RegionsFlags == {<<>>, <<"u", "s", "-", "*">>, <<"a", "s", "i", "a", "-", "*">>}
BuildFiles ==
    {[filename |-> "", script |-> <<>>, command |-> <<>>],
     [filename |-> "", script |-> <<>>, command |-> <<"e", "c", "h", "o", " ", "h", "i">>],
     [filename |-> "file", script |-> <<<<"{", "\"", "p", "i", "p", "e", "l", "i", "n", "e", "\"", ":", " ", "{", "}", "}">>>>, command |-> <<>>],
     [filename |-> "file", script |-> <<<<"[", "]">>>>, command |-> <<>>],
     [filename |-> "file", script |-> <<<<"a">>, <<>>, <<"g", "s", "u", "t", "i", "l", " ", "b", " ", "&">>>>, command |-> <<>>],
     [filename |-> "file", script |-> <<<<"a">>, <<"b", " ", "#", " ", "p", "o", "r", "t", "s", "=", "a">>>>, command |-> <<>>],
     [filename |-> "-", script |-> <<<<"a", " ", "\\">>, <<"b">>>>, command |-> <<"e", "c", "h", "o", " ", "h", "i">>]}

BuildInit ==
    /\ inputs \in InputsFlags
    /\ outputs \in OutputsFlags
    /\ output \in OutputFlags
    /\ outputInterval \in {0, 60}
    /\ fuse \in BOOLEAN
    /\ ssh \in BOOLEAN
    /\ zones \in ZonesFlags
    /\ regions \in RegionsFlags
    /\ \/ (zones = <<>> /\ regions = <<>>)
       \/ (inputs = <<>> /\ outputs = <<>> /\ output = <<>>
           /\ outputInterval = 0 /\ ~fuse /\ ~ssh)
    /\ \E f \in BuildFiles :
          /\ filename = f.filename
          /\ script = f.script
          /\ command = f.command
    /\ buildPc = "call"
    /\ req = NilRequest
    /\ buildErr = <<>>
    /\ locals = NoLocals
    /\ parsePc = "idle"
    /\ line = 0
    /\ buffer = <<>>
    /\ actions = <<>>
    /\ parseErr = <<>>
    /\ parsed = <<>>

BuildIdle ==
    /\ inputs = <<>>
    /\ outputs = <<>>
    /\ output = <<>>
    /\ outputInterval = 0
    /\ command = <<>>
    /\ fuse = FALSE
    /\ ssh = FALSE
    /\ zones = <<>>
    /\ regions = <<>>
    /\ buildPc = "idle"
    /\ req = NilRequest
    /\ buildErr = <<>>
    /\ locals = NoLocals

\* Whether the local files can be read matters when upload is called (an
\* input that does not parse as a URL), whether the listing succeeds when a
\* zone or region is given as a prefix.
ReadOutcomes ==
    IF \E i \in DOMAIN namedListOf(inputs, <<"I", "N", "P", "U", "T">>) : ~parseGCSPath(i).ok
       THEN BOOLEAN ELSE {TRUE}

ListOutcomes ==
    IF Len(Prefixes(listOf(zones))) + Len(Prefixes(listOf(regions))) > 0
       THEN BOOLEAN ELSE {TRUE}

\* One call of buildRequest.
Build ==
    /\ buildPc = "call"
    /\ buildPc' = "returned"
    /\ \E inputOrder \in Orders(DOMAIN namedListOf(inputs, <<"I", "N", "P", "U", "T">>)),
          outputOrder \in Orders(DOMAIN namedListOf(outputs, <<"O", "U", "T", "P", "U", "T">>)),
          readOK \in ReadOutcomes, listOK \in ListOutcomes :
          \E bucketOrder \in Orders(DOMAIN BucketsFor(inputOrder, readOK)),
             fuseOrder \in Orders(DOMAIN BucketsFor(inputOrder, readOK)) :
             \E r \in {buildRequest([inputOrder |-> inputOrder,
                                     outputOrder |-> outputOrder,
                                     bucketOrder |-> bucketOrder,
                                     fuseOrder |-> fuseOrder,
                                     readOK |-> readOK,
                                     listOK |-> listOK])} :
                 /\ req' = r.req
                 /\ buildErr' = r.err
                 /\ locals' = r.locals
    /\ UNCHANGED <<inputs, outputs, output, outputInterval, command, fuse, ssh,
                   zones, regions>>

\* The budget the retry loop compares the attempt counter with (line 242).
Budget == pvmAttempts + attempts

\* The operation name the service returns for the k-th submission (lro.Name):
\* every submission creates a new operation.
OperationName(k) == k

Outcomes == {"success", "fatal", "retriable"}

CtlInit ==
    /\ pvmAttempts \in 0..MaxPvmAttempts
    /\ attempts \in 0..MaxAttempts
    /\ wait \in BOOLEAN
    /\ dryRun \in BOOLEAN
    /\ pc = "invoke"
    /\ attempt = 0
    /\ preemptible = FALSE
    /\ printed = FALSE
    /\ notified = FALSE
    /\ runs = <<>>
    /\ watched = <<>>
    /\ listeners = [k \in {} |-> "none"]
    /\ abort = <<>>
    /\ interrupts = 0
    /\ cancels = <<>>
    /\ result = "none"

\* Line 206: the request is printed but not run.
SkipRunDryRunOnly == dryRun
SkipRun == dryRun \/ (attempts = 0 /\ pvmAttempts = 0)

\* Line 219: the compute kind of the attempt.
UsePreemptible(a) == a <= pvmAttempts

\* Line 241: the monitor's error is a PipelineExecutionError that is retriable.
IsRetriableAnyError(outcome) == outcome # "success"
IsRetriable(outcome) == outcome = "retriable"

\* Line 242: attempts remain in the budget.
CanRetryInclusive(a) == a <= Budget
CanRetry(a) == a < Budget

\* Line 236: fire and forget.
ReturnsAfterSubmitNever == FALSE
ReturnsAfterSubmit == ~wait

\* Lines 195-198: buildRequest fails, Invoke returns the error.
InvokeBuildFails ==
    /\ pc = "invoke"
    /\ pc' = "done"
    /\ result' = "error"
    /\ UNCHANGED <<pvmAttempts, attempts, wait, dryRun, attempt, preemptible,
                   printed, notified, runs, watched, listeners, abort,
                   interrupts, cancels>>

\* Lines 195-208: the request is built and printed; dry run or an empty budget
\* returns without running.
InvokePrintOnly ==
    /\ pc = "invoke"
    /\ SkipRun
    /\ printed' = TRUE
    /\ pc' = "done"
    /\ result' = "ok"
    /\ UNCHANGED <<pvmAttempts, attempts, wait, dryRun, attempt, preemptible,
                   notified, runs, watched, listeners, abort, interrupts,
                   cancels>>

\* Lines 195-217: the request is built and printed, runPipeline starts: the
\* abort channel is registered and the attempt counter is 1.
InvokeRun ==
    /\ pc = "invoke"
    /\ ~SkipRun
    /\ printed' = TRUE
    /\ notified' = TRUE
    /\ attempt' = 1
    /\ pc' = "submit"
    /\ UNCHANGED <<pvmAttempts, attempts, wait, dryRun, preemptible, runs,
                   watched, listeners, abort, interrupts, cancels, result>>

\* Lines 222-227: the submission failed, runPipeline returns the error. The
\* variant retries a failed submission while attempts remain.
SubmitFailedRetries ==
    /\ IF CanRetry(attempt)
          THEN attempt' = attempt + 1 /\ pc' = "submit" /\ result' = result
          ELSE attempt' = attempt /\ pc' = "done" /\ result' = "error"
    /\ UNCHANGED <<watched, listeners>>
SubmitFailed ==
    /\ pc' = "done"
    /\ result' = "error"
    /\ UNCHANGED <<attempt, watched, listeners>>

\* Lines 229-238: the submission succeeded: the goroutine of cancelOnInterrupt
\* is started for the operation, and without --wait runPipeline returns.
Submitted ==
    /\ listeners' = [k \in DOMAIN listeners \cup {attempt} |->
                        IF k = attempt THEN "waiting" ELSE listeners[k]]
    /\ IF ReturnsAfterSubmit
          THEN pc' = "done" /\ result' = "ok"
          ELSE pc' = "watch" /\ result' = result
    /\ UNCHANGED <<attempt, watched>>

\* Lines 219-238: one iteration of the loop up to the blocking monitor call.
SubmitAttempt ==
    /\ pc = "submit"
    /\ preemptible' = UsePreemptible(attempt)
    /\ \E ok \in BOOLEAN :
          /\ runs' = Append(runs, [attempt |-> attempt,
                                   name |-> OperationName(attempt),
                                   preemptible |-> preemptible',
                                   ok |-> ok])
          /\ IF ok THEN Submitted ELSE SubmitFailed
    /\ UNCHANGED <<pvmAttempts, attempts, wait, dryRun, printed, notified,
                   abort, interrupts, cancels>>

\* Lines 240-250: watch.Invoke returns for the operation of this attempt.
WatchReturns ==
    /\ pc = "watch"
    /\ \E outcome \in Outcomes :
          /\ watched' = Append(watched, [attempt |-> attempt,
                                         name |-> OperationName(attempt),
                                         outcome |-> outcome])
          /\ IF outcome = "success"
                THEN pc' = "done" /\ result' = "ok" /\ attempt' = attempt
                ELSE IF IsRetriable(outcome) /\ CanRetry(attempt)
                        THEN pc' = "submit" /\ result' = result
                             /\ attempt' = attempt + 1
                        ELSE pc' = "done" /\ result' = "error"
                             /\ attempt' = attempt
    /\ UNCHANGED <<pvmAttempts, attempts, wait, dryRun, preemptible, printed,
                   notified, runs, listeners, abort, interrupts, cancels>>

\* The attempt whose operation is in flight: submitted, its monitor call not
\* yet returned. 0 when there is none.
InFlight == IF pc = "watch" THEN attempt ELSE 0

\* An interrupt signal reaches the process after signal.Notify (line 215). The
\* runtime sends it to the channel without blocking: it is dropped when the
\* buffer is full. The channel element records which attempt was in flight.
Interrupt ==
    /\ notified
    /\ interrupts < MaxInterrupts
    /\ interrupts' = interrupts + 1
    /\ abort' = IF Len(abort) < 1 THEN Append(abort, InFlight) ELSE abort
    /\ UNCHANGED <<pvmAttempts, attempts, wait, dryRun, pc, attempt,
                   preemptible, printed, notified, runs, watched, listeners,
                   cancels, result>>

\* Lines 725-732: one of the goroutines waiting on abort receives the signal
\* and calls Operations.Cancel with the name it was started with; a failure
\* of the call is printed. Which waiting goroutine receives is the runtime's
\* choice.
ListenerCancels(k) ==
    /\ k \in DOMAIN listeners
    /\ listeners[k] = "waiting"
    /\ Len(abort) > 0
    /\ abort' = Tail(abort)
    /\ listeners' = [listeners EXCEPT ![k] = "done"]
    /\ \E ok \in BOOLEAN :
          cancels' = Append(cancels, [name |-> OperationName(k),
                                      during |-> Head(abort),
                                      ok |-> ok])
    /\ UNCHANGED <<pvmAttempts, attempts, wait, dryRun, pc, attempt,
                   preemptible, printed, notified, runs, watched, interrupts,
                   result>>

ListenerStep == \E k \in DOMAIN listeners : ListenerCancels(k)

CtlIdle ==
    /\ pvmAttempts = 0
    /\ attempts = 0
    /\ wait = FALSE
    /\ dryRun = FALSE
    /\ pc = "idle"
    /\ attempt = 0
    /\ preemptible = FALSE
    /\ printed = FALSE
    /\ notified = FALSE
    /\ runs = <<>>
    /\ watched = <<>>
    /\ listeners = [k \in {} |-> "none"]
    /\ abort = <<>>
    /\ interrupts = 0
    /\ cancels = <<>>
    /\ result = "none"

(***************************************************************************)
(* The specifications: one per component.                                  *)
(***************************************************************************)
\* Invoke and runPipeline with the cancellation listeners.
Init == CtlInit /\ MkdirIdle /\ ParseIdle /\ BuildIdle

CtlNext ==
    \/ InvokeBuildFails
    \/ InvokePrintOnly
    \/ InvokeRun
    \/ SubmitAttempt
    \/ WatchReturns
    \/ Interrupt
    \/ ListenerStep

Next == CtlNext /\ UNCHANGED <<mkdirVars, parseVars, buildVars>>

Spec == Init /\ [][Next]_vars

\* mkdir applied to every bounded list of paths.
InitMkdir == MkdirInit /\ CtlIdle /\ ParseIdle /\ BuildIdle

NextMkdir == MkdirCall /\ UNCHANGED <<ctlVars, parseVars, buildVars>>

SpecMkdir == InitMkdir /\ [][NextMkdir]_vars

\* parseFile applied to every bounded script.
InitParse == ParseInit /\ CtlIdle /\ MkdirIdle /\ BuildIdle

ParseNext ==
    \/ ParseFileJSON
    \/ ParseFileOpen
    \/ ScanContinuation
    \/ ScanParse
    \/ ScanEnd
    \/ ScanFails

NextParse == ParseNext /\ UNCHANGED <<ctlVars, mkdirVars, buildVars>>

SpecParse == InitParse /\ [][NextParse]_vars

\* buildRequest applied to every configuration of the model.
InitBuild == BuildInit /\ CtlIdle /\ MkdirIdle

NextBuild == Build /\ UNCHANGED <<ctlVars, mkdirVars, parseVars>>

SpecBuild == InitBuild /\ [][NextBuild]_vars

(***************************************************************************)
(* Properties of the execution controller.                                 *)
(***************************************************************************)
AllSubmitted == \A k \in 1..Len(runs) : runs[k].ok
AllRetriable == \A k \in 1..Len(watched) : watched[k].outcome = "retriable"

\* C1: with wait=true, when every submission succeeds and the monitor reports
\* a retriable error for every attempt, the run ends in failure after exactly
\* P+N submissions, and the k-th submission is preemptible exactly when k <= P.
RetryBudgetExact ==
    (notified /\ wait /\ AllSubmitted /\ AllRetriable) =>
        /\ \A k \in 1..Len(runs) :
              /\ runs[k].attempt = k
              /\ runs[k].preemptible = (k <= pvmAttempts)
        /\ pc = "done" => (result = "error" /\ Len(runs) = pvmAttempts + attempts)

\* Witness of C1: both budgets are used up by retriable errors, the
\* submission after the last preemptible one is not preemptible.
RetryBudgetExactWitness ==
    /\ pc = "done" /\ wait /\ AllSubmitted /\ AllRetriable
    /\ pvmAttempts >= 1 /\ attempts >= 1
    /\ Len(runs) = pvmAttempts + attempts
    /\ runs[pvmAttempts].preemptible
    /\ ~runs[pvmAttempts + 1].preemptible

\* C2: one Invoke never submits more than P+N times, and with an empty budget
\* or a dry run the request is printed and nothing is submitted.
SubmissionsWithinBudget ==
    /\ Len(runs) <= pvmAttempts + attempts
    /\ (dryRun \/ (pvmAttempts = 0 /\ attempts = 0)) =>
          /\ Len(runs) = 0
          /\ (pc = "done" /\ result = "ok") => printed

\* Witness of C2: a run that used its whole budget, and a printed request
\* that was never submitted because the budget is empty.
SubmissionsWithinBudgetWitness ==
    \/ (Len(runs) = pvmAttempts + attempts /\ Len(runs) >= 2 /\ pc = "done")
    \/ (pvmAttempts = 0 /\ attempts = 0 /\ ~dryRun /\ pc = "done" /\ printed
        /\ Len(runs) = 0)

\* C3: a failed submission ends the run with a failure at once: it is the
\* last submission, the monitor is not called for it and no cancellation
\* listener is started for it.
SubmitErrorIsFatal ==
    \A k \in 1..Len(runs) :
        ~runs[k].ok =>
            /\ k = Len(runs)
            /\ pc = "done"
            /\ result = "error"
            /\ \A j \in 1..Len(watched) : watched[j].attempt # runs[k].attempt
            /\ runs[k].attempt \notin DOMAIN listeners

\* Witness of C3: the second submission fails while attempts remain.
SubmitErrorIsFatalWitness ==
    /\ Len(runs) = 2
    /\ ~runs[2].ok
    /\ pvmAttempts + attempts >= 3

\* C4: attempt k+1 is submitted only after the monitor reported a retriable
\* error for attempt k with k < P+N; success ends the run with success, a
\* non-retriable error and a retriable error at k = P+N end it with failure;
\* a retry increases the attempt counter by exactly 1.
RetryOnlyRetriableWithinBudget ==
    [][ /\ (Len(runs') > Len(runs) /\ Len(runs) >= 1) =>
              LET k == Len(runs) IN
              /\ Len(watched) = k
              /\ watched[k].attempt = k
              /\ watched[k].outcome = "retriable"
              /\ k < pvmAttempts + attempts
              /\ runs'[k + 1].attempt = k + 1
        /\ Len(watched') > Len(watched) =>
              LET o == watched'[Len(watched')].outcome
                  k == watched'[Len(watched')].attempt IN
              /\ k = attempt
              /\ o = "success" => (pc' = "done" /\ result' = "ok")
              /\ o = "fatal" => (pc' = "done" /\ result' = "error")
              /\ (o = "retriable" /\ k >= pvmAttempts + attempts) =>
                    (pc' = "done" /\ result' = "error")
              /\ (o = "retriable" /\ k < pvmAttempts + attempts) =>
                    (pc' = "submit" /\ result' = "none" /\ attempt' = k + 1)
        /\ attempt' # attempt => (attempt' = attempt + 1)
      ]_vars

\* Witness of C4: after a retry, a non-retriable error ends the run although
\* attempts remain.
RetryOnlyRetriableWithinBudgetWitness ==
    /\ Len(runs) = 2
    /\ Len(watched) = 2
    /\ watched[1].outcome = "retriable"
    /\ watched[2].outcome = "fatal"
    /\ pvmAttempts + attempts >= 3
    /\ pc = "done"
    /\ result = "error"

\* C5: the cancel call issued for an interrupt that arrived while the
\* operation of attempt k was in flight names the operation of attempt k.
CancelNamesInFlightOperation ==
    \A i \in 1..Len(cancels) :
        cancels[i].during # 0 =>
            cancels[i].name = OperationName(cancels[i].during)

\* C6: with wait=false the run returns success right after the first
\* successful submission: one submission, no monitor call, no retry.
FireAndForget ==
    ~wait =>
        /\ Len(runs) <= 1
        /\ watched = <<>>
        /\ (Len(runs) = 1 /\ runs[1].ok) => (pc = "done" /\ result = "ok")

\* Witness of C6: a successful submission without wait, attempts remaining.
FireAndForgetWitness ==
    /\ ~wait
    /\ pvmAttempts + attempts >= 2
    /\ Len(runs) = 1
    /\ runs[1].ok
    /\ pc = "done"
    /\ result = "ok"

(***************************************************************************)
(* Properties of the directory merger.                                     *)
(***************************************************************************)
\* C8: for a non-empty input list, the argument list of mkdir keeps no input
\* path that is a proper string prefix of another input path, has no more
\* entries than the input, is in ascending lexicographic order and holds
\* input paths only.
MkdirMergeProperties ==
    (mkdirPc = "returned" /\ Len(mkdirInput) > 0) =>
        /\ \A i, j \in 1..Len(mkdirInput) :
              (mkdirInput[i] # mkdirInput[j]
               /\ HasPrefix(mkdirInput[j], mkdirInput[i])) =>
                  mkdirInput[i] \notin Range(arguments)
        /\ Len(arguments) <= Len(mkdirInput)
        /\ \A i, j \in 1..Len(arguments) :
              i < j => LessEq(arguments[i], arguments[j])
        /\ Range(arguments) \subseteq Range(mkdirInput)

\* Witness of C8: an unsorted input with a path and a longer path it
\* prefixes, merged into fewer arguments than paths, more than one.
MkdirMergePropertiesWitness ==
    /\ mkdirPc = "returned"
    /\ Len(mkdirInput) = 3
    /\ Less(mkdirInput[3], mkdirInput[1])
    /\ HasPrefix(mkdirInput[1], mkdirInput[3])
    /\ Len(arguments) = 2

\* A path as path.Join returns it under the root: absolute, without an empty
\* element and without a trailing slash.
IsCleanAbsolute(p) ==
    /\ Len(p) > 1
    /\ p[1] = "/"
    /\ p[Len(p)] # "/"
    /\ \A i \in 1..(Len(p) - 1) : ~(p[i] = "/" /\ p[i + 1] = "/")

\* mkdir -p of arg creates dir: dir is arg, or arg continues dir at a
\* component boundary.
Creates(arg, dir) ==
    \/ arg = dir
    \/ (HasPrefix(arg, dir) /\ Len(arg) > Len(dir) /\ arg[Len(dir) + 1] = "/")

\* C13: mkdir -p over the arguments of mkdir makes every input path exist:
\* each input path is an argument or an ancestor of one, also when the name
\* of one directory is a string prefix of the name of its sibling.
MkdirCreatesEveryInput ==
    (/\ mkdirPc = "returned"
     /\ \A i \in 1..Len(mkdirInput) : IsCleanAbsolute(mkdirInput[i])) =>
        \A i \in 1..Len(mkdirInput) :
            \E k \in 1..Len(arguments) : Creates(arguments[k], mkdirInput[i])

(***************************************************************************)
(* Properties of the script parser.                                        *)
(***************************************************************************)
\* A line with no command tokens and no flags: empty or whitespace only.
IsBlank(text) == \A i \in 1..Len(text) : IsSpace(text[i])

\* C7: a blank logical line yields no Action and no error, so the actions of
\* parseFile are as many as the non-blank logical lines it has parsed.
BlankLinesYieldNoAction ==
    (parsePc \in {"scan", "returned"} /\ parseErr = <<>>) =>
        Len(actions) = Cardinality({i \in 1..Len(parsed) : ~IsBlank(parsed[i])})

\* The options of a line, as parse reads them (lines 494-506).
OptionsOf(text) ==
    IF Index(text, "#") >= 0
       THEN OptionsScan(Fields(TrimSpace(SubSeq(text, Index(text, "#") + 2, Len(text)))),
                        EmptyMap, <<>>).options
       ELSE EmptyMap

LastParsed == parsed[Len(parsed)]
PortPairs == Split(OptionsOf(LastParsed)[<<"p", "o", "r", "t", "s">>], ";")
PairName(pair) == SubSeq(pair, 1, Index(pair, ":"))
PairPort(pair) == ParseInt(SubSeq(pair, Index(pair, ":") + 2, Len(pair)))

\* A pair name:port with a name of at least one character and a port that is
\* a non-negative integer.
ValidPair(pair) ==
    /\ Index(pair, ":") >= 1
    /\ PairPort(pair).ok
    /\ PairPort(pair).n >= 0

\* C12: a line with a ports option is accepted only if every pair has its
\* first ':' at index 1 or later and a non-negative integer after it, and then
\* the port map of its Action binds each name to its port; a line with a pair
\* that is not of this form is an error and parseFile returns no Action.
PortsAcceptedOnlyIfValid ==
    (/\ parsePc \in {"scan", "returned"}
     /\ parsed # <<>>
     /\ <<"p", "o", "r", "t", "s">> \in DOMAIN OptionsOf(LastParsed)) =>
        /\ parseErr = <<>> =>
              /\ \A k \in 1..Len(PortPairs) : ValidPair(PortPairs[k])
              /\ LET pm == actions[Len(actions)].PortMappings
                 IN  /\ DOMAIN pm = {PairName(PortPairs[k]) : k \in 1..Len(PortPairs)}
                     /\ \A k \in 1..Len(PortPairs) :
                           \E j \in 1..Len(PortPairs) :
                               /\ PairName(PortPairs[j]) = PairName(PortPairs[k])
                               /\ pm[PairName(PortPairs[k])] = PairPort(PortPairs[j]).n
        /\ (\E k \in 1..Len(PortPairs) : ~ValidPair(PortPairs[k])) =>
              (parseErr # <<>> /\ actions = <<>>)

\* The logical lines of a script: each run of physical lines that end in the
\* continuation marker is joined, without the markers, with the line that
\* follows; a run at the end of the file is a logical line of its own.
RECURSIVE LogicalLines(_, _, _)
LogicalLines(lines, joined, open) ==
    IF lines = <<>> THEN (IF open THEN <<joined>> ELSE <<>>)
    ELSE IF HasSuffix(Head(lines), <<"\\">>)
            THEN LogicalLines(Tail(lines),
                              joined \o SubSeq(Head(lines), 1, Len(Head(lines)) - 1),
                              TRUE)
            ELSE <<joined \o Head(lines)>> \o LogicalLines(Tail(lines), <<>>, FALSE)

\* C14: parseFile on script text parses every logical line once, in source
\* order, the last one also when the file ends with the continuation marker,
\* and every logical line has its Action; a parse error carries the number of
\* the physical line at which the logical line ends, and no Action is
\* returned.
EveryLineParsed ==
    (/\ parsePc = "returned"
     /\ (filename = "-" \/ script \notin JSONActionFiles)) =>
        /\ (parseErr = <<>> /\ line = Len(script)) =>
              /\ parsed = LogicalLines(script, <<>>, FALSE)
              /\ \A k \in 1..Len(parsed) :
                    \E j \in 1..Len(actions) : actions[j] = parse(parsed[k]).action
        /\ (parseErr # <<>> /\ parseErr[1] = "line") =>
              /\ parseErr[2] = line
              /\ ~HasSuffix(script[line], <<"\\">>)
              /\ parsed = SubSeq(LogicalLines(script, <<>>, FALSE), 1, Len(parsed))
              /\ parse(parsed[Len(parsed)]).err # <<>>
              /\ actions = <<>>

(***************************************************************************)
(* Properties of the request assembler.                                    *)
(***************************************************************************)
\* s contains sub as a substring.
Contains(s, sub) ==
    \E i \in 1..(Len(s) - Len(sub) + 1) : SubSeq(s, i, i + Len(sub) - 1) = sub

Assembled == buildPc = "returned" /\ buildErr = <<>> /\ ~IsRawRequest

\* A localization step copies or decodes to a path under the input root, or
\* belongs to a FUSE mount; a delocalization step copies from a path under
\* the output root, or uploads the consolidated log.
IsMount(a) == \E i \in 1..Len(a.Flags) : a.Flags[i] = <<"E", "N", "A", "B", "L", "E", "_", "F", "U", "S", "E">>

IsLocalization(a) ==
    \/ a.ImageUri = fuseImage
    \/ (a.ImageUri = cloudSDKImage /\ Contains(a.Commands[2], inputRoot))

IsDelocalization(a) ==
    \/ (a.ImageUri = cloudSDKImage
        /\ HasPrefix(a.Commands[2], <<"g", "s", "u", "t", "i", "l", " ", "-", "q", " ">>)
        /\ Contains(a.Commands[2], outputRoot))
    \/ a = LogUpload

\* The action sequence is first, then debug, then the localization steps,
\* then middle, then the delocalization steps, the log upload last.
ActionsInOrder(A, middle) ==
    LET d == IF ssh THEN 1 ELSE 0
        nl == Len(locals.localizers)
        nm == Len(middle)
        nd == Len(locals.delocalizers)
    IN  /\ Len(A) = 1 + d + nl + nm + nd
        /\ A[1] = mkdir(locals.directories)
        /\ HasPrefix(A[1].Commands[2], <<"m", "k", "d", "i", "r", " ", "-", "p", " ", "/", "m", "n", "t", "/", "g", "o", "o", "g", "l", "e", "/", ".", "g", "o", "o", "g", "l", "e", "/">>)
        /\ ssh => A[2] = sshDebug
        /\ ~ssh => \A i \in 1..Len(A) : A[i] # sshDebug
        /\ \A i \in 1..nl : IsLocalization(A[1 + d + i])
        /\ \A i \in 1..Len(A) :
              IsMount(A[i]) =>
                  /\ i < 1 + d + nl
                  /\ ~IsMount(A[i + 1])
                  /\ A[i + 1].ImageUri = fuseImage
                  /\ A[i + 1].Commands = <<<<"w", "a", "i", "t">>, A[i].Commands[4]>>
        /\ SubSeq(A, 2 + d + nl, 1 + d + nl + nm) = middle
        /\ \A i \in 1..nd : IsDelocalization(A[1 + d + nl + nm + i])
        /\ output # <<>> =>
              (A[Len(A)] = LogUpload /\ A[Len(A)].Flags = <<<<"A", "L", "W", "A", "Y", "S", "_", "R", "U", "N">>>>)
        /\ output = <<>> => \A i \in 1..Len(A) : A[i] # LogUpload

\* C9 as stated: in every assembled pipeline the actions are the
\* directory-creation step, the debug-access step iff ssh is enabled, the
\* localization steps (each mount directly followed by its wait), the
\* user-supplied steps, the delocalization steps, the ALWAYS_RUN log upload
\* last when configured.
ActionOrderAsStated ==
    Assembled => ActionsInOrder(req.Pipeline.Actions, locals.parsed)

\* C9 as amended: when an output interval and a log destination are both
\* configured, one background step that uploads the log periodically stands
\* between the localization steps and the user-supplied steps.
ActionOrder ==
    Assembled =>
        ActionsInOrder(req.Pipeline.Actions,
                       (IF outputInterval # 0 /\ output # <<>>
                           THEN <<PeriodicLogUpload>> ELSE <<>>)
                       \o locals.parsed)

\* Witness of C9: a pipeline with every group: debug access, an upload and a
\* mount pair, the periodic log upload, two user steps, two output copies and
\* the log upload.
ActionOrderWitness ==
    /\ Assembled
    /\ ssh /\ fuse
    /\ outputInterval # 0 /\ output # <<>>
    /\ Len(locals.localizers) = 3
    /\ Len(locals.parsed) >= 2
    /\ Len(locals.delocalizers) = 3
    /\ Len(req.Pipeline.Actions) = 9 + Len(locals.parsed)

\* C10 as stated: with both zones and regions configured buildRequest fails
\* and returns no request; an assembled request has exactly one of the zone
\* list and the region list non-empty; with neither configured the zones are
\* the default zone alone and the regions are empty.
ZonesXorRegionsAsStated ==
    buildPc = "returned" =>
        /\ (zones # <<>> /\ regions # <<>>) =>
              (buildErr # <<>> /\ req = NilRequest)
        /\ Assembled =>
              LET Z == req.Pipeline.Resources.Zones
                  R == req.Pipeline.Resources.Regions
              IN  /\ ~(Z # <<>> /\ R # <<>>)
                  /\ ~(Z = <<>> /\ R = <<>>)
                  /\ (zones = <<>> /\ regions = <<>>) =>
                        (Z = <<DefaultZone>> /\ R = <<>>)

\* C10 as amended: the same, for an input that is not a raw request.
ZonesXorRegions ==
    (buildPc = "returned" /\ ~IsRawRequest) =>
        /\ (zones # <<>> /\ regions # <<>>) =>
              (buildErr # <<>> /\ req = NilRequest)
        /\ buildErr = <<>> =>
              LET Z == req.Pipeline.Resources.Zones
                  R == req.Pipeline.Resources.Regions
              IN  /\ ~(Z # <<>> /\ R # <<>>)
                  /\ ~(Z = <<>> /\ R = <<>>)
                  /\ (zones = <<>> /\ regions = <<>>) =>
                        (Z = <<DefaultZone>> /\ R = <<>>)

\* Witness of C10: a script that parses, both lists configured, and the
\* error for that.
ZonesXorRegionsWitness ==
    /\ buildPc = "returned"
    /\ ~IsRawRequest
    /\ zones # <<>> /\ regions # <<>>
    /\ buildErr = <<"both zones and regions have been supplied">>
    /\ req = NilRequest

(***************************************************************************)
(* The directories handed to mkdir.                                        *)
(***************************************************************************)
InputKeys == DOMAIN namedListOf(inputs, <<"I", "N", "P", "U", "T">>)
OutputKeys == DOMAIN namedListOf(outputs, <<"O", "U", "T", "P", "U", "T">>)
InputTarget(i) == gcsJoin(<<inputRoot, TrimRightStars(i)>>)
OutputTarget(o) == gcsJoin(<<outputRoot, TrimRightStars(o)>>)
IsGlob(s) == HasSuffix(s, <<"*">>)
Required == Range(locals.directories)

OutputsRequired ==
    \A o \in OutputKeys :
        IF IsGlob(o) THEN OutputTarget(o) \in Required
        ELSE PathDir(OutputTarget(o)) \in Required

\* C11 as stated: without FUSE, the target of an input that ends in a glob
\* suffix is among the directories handed to mkdir, and so is the parent of
\* the target of an input that does not; the target of a glob output and the
\* parent of the target of any other output are among them.
RequiredDirectoriesAsStated ==
    (Assembled /\ ~fuse) =>
        /\ \A i \in InputKeys :
              IF IsGlob(i) THEN InputTarget(i) \in Required
              ELSE PathDir(InputTarget(i)) \in Required
        /\ OutputsRequired

\* C11 as amended: an input that does not end in a glob suffix adds nothing:
\* the directories are the temporary directory, the targets of the glob
\* inputs, and for each output its target (glob) or its target's parent.
RequiredDirectories ==
    (Assembled /\ ~fuse) =>
        /\ \A i \in InputKeys : IsGlob(i) => InputTarget(i) \in Required
        /\ OutputsRequired
        /\ Required =
              {googlePath(<<"t", "m", "p">>)}
              \cup {InputTarget(i) : i \in {k \in InputKeys : IsGlob(k)}}
              \cup {OutputDirectory(o, OutputTarget(o)) : o \in OutputKeys}

\* Witness of C11: glob inputs, a glob output and an output without a glob.
RequiredDirectoriesWitness ==
    /\ Assembled /\ ~fuse
    /\ \E i \in InputKeys : IsGlob(i)
    /\ \E o \in OutputKeys : IsGlob(o)
    /\ \E o \in OutputKeys : ~IsGlob(o)
    /\ Len(locals.directories) = 5

=============================================================================
